---- MODULE Spec2Model ----
(***************************************************************************)
(* A model of src/main.py: the TenttiArkisto uploader.  One run of the     *)
(* script resolves the archive's option tables (fetchOptions), discovers   *)
(* the staged PDF files (findFiles), logs in (login) and submits the exam  *)
(* records one by one (addExams / __addExam).  The archive is the          *)
(* environment: the add-exam form it serves, and the status, cookie and    *)
(* CSRF token field of each of its responses, are chosen                   *)
(* nondeterministically.                                                   *)
(*                                                                         *)
(* Strings the code only compares are TLA+ strings.  An option's value=""  *)
(* attribute is a sequence of characters (so that \d and \d* can count     *)
(* them), an option's label is the sequence of its ": "-separated          *)
(* segments, a file stem is the sequence of its "_"-separated fields and   *)
(* a description is the sequence of the chunks it is made of.              *)
(***************************************************************************)
EXTENDS Naturals, Sequences, FiniteSets, TLC

VARIABLES
    pc,         \* position of the run in the script
    err,        \* message of the exception that ended the run, "" if none
    courses,    \* self.courses
    languages,  \* self.languages
    page,       \* the options of the archive's add-exam form
    overrides,  \* the course_overrides the caller hands to fetchOptions
    execute,    \* args.execute and USERNAME and PASSWORD
    todo,       \* the stems of the *.pdf files of todo_path, in glob order
    done,       \* the stems of the files of done_path
    files,      \* findFiles' local list
    exams,      \* the list findFiles returned to the script
    next,       \* addExams: how many records the loop has taken
    token,      \* addExams' local token
    cookies,    \* whether the client's cookie jar holds "sessionid"
    http        \* the requests made so far, each with what came back

vars == <<pc, err, courses, languages, page, overrides, execute, todo, done,
          files, exams, next, token, cookies, http>>

-----------------------------------------------------------------------------
(* Bounds of the model. *)

\* the longest add-exam form (in options) of the option-resolution runs
MaxOptions == 3
\* the largest number of staged files of a whole run
MaxFiles == 3
\* the largest number of staged files of the file-discovery runs
MaxStaged == 2

-----------------------------------------------------------------------------
(* Tables: Python dicts. *)

EmptyTable == [k \in {} |-> <<>>]

Put(t, k, v) == [x \in (DOMAIN t) \cup {k} |-> IF x = k THEN v ELSE t[x]]

\* None, for addExams' token
None == "None"

-----------------------------------------------------------------------------
(* str.lower(), on the strings of the model. *)

Lower(s) ==
    CASE s = "CS-101"   -> "cs-101"
      [] s = "Cs-101"   -> "cs-101"
      [] s = "MS-A0102" -> "ms-a0102"
      [] s = "Intro"    -> "intro"
      [] s = "Calc"     -> "calc"
      [] s = "Swedish"  -> "swedish"
      [] s = "English"  -> "english"
      [] s = "ENGLISH"  -> "english"
      [] s = "Finnish"  -> "finnish"
      [] s = "Yes"      -> "yes"
      [] OTHER          -> s

RECURSIVE JoinColon(_)
\* the text of a label: its segments with ": " between them
JoinColon(segs) ==
    IF segs = <<>> THEN ""
    ELSE IF Len(segs) = 1 THEN segs[1]
    ELSE segs[1] \o ": " \o JoinColon(Tail(segs))

LowerLabel(segs) == JoinColon([i \in 1..Len(segs) |-> Lower(segs[i])])

Front(s) == SubSeq(s, 1, Len(s) - 1)

-----------------------------------------------------------------------------
(* The two patterns of fetchOptions. *)

IsDigit(ch) == ch \in {"0", "1", "2", "3", "4", "5", "6", "7", "8", "9"}

\* '<option value="(\d*)">(.+): .*</option>': any number of digits, and a
\* label with a ": " in it; the greedy (.+) runs to the last ": "
CourseMatch(o) ==
    /\ \A i \in 1..Len(o.id) : IsDigit(o.id[i])
    /\ Len(o.label) >= 2
    /\ JoinColon(Front(o.label)) # ""

\* '<option value="(\d)">(.+)</option>': exactly one digit, any label
LanguageMatch(o) ==
    /\ Len(o.id) = 1
    /\ IsDigit(o.id[1])
    /\ JoinColon(o.label) # ""

RECURSIVE CourseMatches(_)
\* re.findall of the first pattern: (id, corse_code) in page order
CourseMatches(pg) ==
    IF pg = <<>> THEN <<>>
    ELSE (IF CourseMatch(Head(pg))
          THEN << <<Head(pg).id, JoinColon(Front(Head(pg).label)),
                    LowerLabel(Front(Head(pg).label))>> >>
          ELSE <<>>) \o CourseMatches(Tail(pg))

RECURSIVE LanguageMatches(_)
\* re.findall of the second pattern: (id, language) in page order
LanguageMatches(pg) ==
    IF pg = <<>> THEN <<>>
    ELSE (IF LanguageMatch(Head(pg))
          THEN << <<Head(pg).id, JoinColon(Head(pg).label),
                    LowerLabel(Head(pg).label)>> >>
          ELSE <<>>) \o LanguageMatches(Tail(pg))

-----------------------------------------------------------------------------
(* fetchOptions. Each match carries its id, its text and the text          *)
(* lowercased (c = corse_code.lower(), l = language.lower()).              *)

\* one turn of the course loop
CourseStep(table, id, c, course_overrides) ==
    IF c \in DOMAIN course_overrides
    THEN Put(table, c, course_overrides[c])
    ELSE IF c \notin DOMAIN table
    THEN Put(table, c, id)
    ELSE table

RECURSIVE BuildCourses(_, _, _)
BuildCourses(matches, course_overrides, table) ==
    IF matches = <<>> THEN table
    ELSE BuildCourses(Tail(matches), course_overrides,
                      CourseStep(table, Head(matches)[1], Head(matches)[3],
                                 course_overrides))

\* a plausible bug: a duplicate language silently replaces the earlier one
LanguageStepSilent(acc, id, l) ==
    [table |-> Put(acc.table, l, id), raised |-> FALSE]

\* one turn of the language loop: the table so far, and whether it raised
LanguageStep(acc, id, l) ==
    IF l \in DOMAIN acc.table
    THEN [table |-> acc.table, raised |-> TRUE]
    ELSE [table |-> Put(acc.table, l, id), raised |-> FALSE]

RECURSIVE BuildLanguages(_, _)
BuildLanguages(matches, acc) ==
    IF matches = <<>> \/ acc.raised THEN acc
    ELSE BuildLanguages(Tail(matches),
                        LanguageStep(acc, Head(matches)[1], Head(matches)[3]))

\* what one call leaves in self.courses and self.languages, and whether it
\* raised "Duplicate language found"
fetchOptions(pg, course_overrides) ==
    LET ls == BuildLanguages(LanguageMatches(pg),
                             [table |-> EmptyTable, raised |-> FALSE])
    IN [courses   |-> BuildCourses(CourseMatches(pg), course_overrides, EmptyTable),
        languages |-> ls.table,
        raised    |-> ls.raised]

\* the GET of fetchOptions, as the log keeps it
FetchRequest == [req |-> "GET exams/add/", by |-> "fetchOptions", sent |-> None,
                 status |-> 200, matches |-> <<>>, path |-> <<>>]

-----------------------------------------------------------------------------
(* The options the archive's form is made of. *)

Opt(sel, id, label) == [sel |-> sel, id |-> id, label |-> label]

OptionUniverse ==
    { Opt("course", <<"7">>, <<"CS-101", "Intro">>),
      Opt("course", <<"9", "9">>, <<"Cs-101", "Intro">>),
      Opt("course", <<"9">>, <<"CS-101", "Intro">>),
      Opt("course", <<"1", "2">>, <<"MS-A0102", "Calc", "Intro">>),
      Opt("lang", <<"1">>, <<"Swedish">>),
      Opt("lang", <<"2">>, <<"English">>),
      Opt("lang", <<"3">>, <<"ENGLISH">>),
      Opt("lang", <<"1", "0">>, <<"Finnish">>),
      Opt("other", <<"1">>, <<"Yes">>),
      Opt("other", <<"2">>, <<"yes">>) }

RECURSIVE SeqsUpTo(_, _)
\* the sequences over S of length at most n
SeqsUpTo(S, n) ==
    IF n = 0 THEN {<<>>}
    ELSE LET shorter == SeqsUpTo(S, n - 1)
         IN shorter \cup {Append(s, x) : s \in shorter, x \in S}

\* the override map of the script
MainOverrides ==
    ("ms-a0102" :> <<"2", "2", "5", "3">>) @@
    ("ene-59.4101" :> <<"1", "9", "6", "0">>) @@
    ("kul-49.3400" :> <<"1", "3", "7", "5">>) @@
    ("mec-e1020" :> <<"3", "8", "6", "0">>) @@
    ("mec-e4001" :> <<"3", "6", "3", "1">>) @@
    ("ms-a0503" :> <<"2", "0", "6", "8">>) @@
    ("phys-c0220" :> <<"2", "4", "4", "1">>) @@
    ("s-17.3020" :> <<"1", "4", "0", "0">>) @@
    ("tfy-0.3252" :> <<"7", "3", "5">>)

OverrideUniverse ==
    { EmptyTable, ("cs-101" :> <<"4", "2">>), MainOverrides }

-----------------------------------------------------------------------------
(* findFiles: the file name of one staged PDF. *)

\* description in [...]: the whole description is one of the words
IsOneOf(description, words) ==
    /\ Len(description) = 1
    /\ description[1] \in words

\* re.findall(pattern, description) is not empty: the pattern occurs
\* somewhere in the description
Finds(instances, description) ==
    \E i \in 1..Len(description) : description[i] \in instances

\* the chunks of the model in which each pattern occurs
Mellanforhor == {"mellanförhör-1"}
Deltentamen == {"deltentamen-2"}
Medterm == {"medterm-1"}
Valikoe == {"välikoe-1"}
Osakoe == {"osakoe-1", "osakoe-1a"}

\* a plausible bug: the English words are tested before the Swedish ones
LanguageOfEnglishFirst(description) ==
    IF IsOneOf(description, {"exam", "final-exam"}) \/ Finds(Medterm, description)
    THEN "english"
    ELSE IF \/ IsOneOf(description, {"tentamen", "sluttentamen"})
            \/ Finds(Mellanforhor, description)
            \/ Finds(Deltentamen, description)
    THEN "swedish"
    ELSE IF \/ IsOneOf(description, {"tentti", "välikoe", "kesätentti"})
            \/ Finds(Valikoe, description)
            \/ Finds(Osakoe, description)
    THEN "finnish"
    ELSE ""

\* the if / elif chain of lines 28-35; "" stands for the raise of line 35
LanguageOf(description) ==
    IF \/ IsOneOf(description, {"tentamen", "sluttentamen"})
       \/ Finds(Mellanforhor, description)
       \/ Finds(Deltentamen, description)
    THEN "swedish"
    ELSE IF IsOneOf(description, {"exam", "final-exam"}) \/ Finds(Medterm, description)
    THEN "english"
    ELSE IF \/ IsOneOf(description, {"tentti", "välikoe", "kesätentti"})
            \/ Finds(Valikoe, description)
            \/ Finds(Osakoe, description)
    THEN "finnish"
    ELSE ""

\* datetime.strptime(date_str, "%Y%m%d") followed by strftime("%Y-%m-%d"):
\* <<>> stands for the ValueError. %m and %d take one digit or two.
FormatDate(date_str) ==
    CASE date_str = "20240315" -> <<"2024-03-15">>
      [] date_str = "2024315"  -> <<"2024-03-15">>
      [] date_str = "20241301" -> <<>>
      [] date_str = "2024-3-15" -> <<>>
      [] OTHER -> <<>>

\* str.replace("-", " "), chunk by chunk
Spaced(chunk) ==
    CASE chunk = "final-exam"      -> "final exam"
      [] chunk = "mellanförhör-1"  -> "mellanförhör 1"
      [] chunk = "deltentamen-2"   -> "deltentamen 2"
      [] chunk = "medterm-1"       -> "medterm 1"
      [] chunk = "midterm-1"       -> "midterm 1"
      [] chunk = "välikoe-1"       -> "välikoe 1"
      [] chunk = "osakoe-1"        -> "osakoe 1"
      [] chunk = "osakoe-1a"       -> "osakoe 1a"
      [] OTHER -> chunk

\* str.capitalize() of the chunk a text begins with
Capitalized(chunk) ==
    CASE chunk = "tentamen"        -> "Tentamen"
      [] chunk = "sluttentamen"    -> "Sluttentamen"
      [] chunk = "exam"            -> "Exam"
      [] chunk = "final exam"      -> "Final exam"
      [] chunk = "tentti"          -> "Tentti"
      [] chunk = "välikoe"         -> "Välikoe"
      [] chunk = "kesätentti"      -> "Kesätentti"
      [] chunk = "mellanförhör 1"  -> "Mellanförhör 1"
      [] chunk = "deltentamen 2"   -> "Deltentamen 2"
      [] chunk = "medterm 1"       -> "Medterm 1"
      [] chunk = "midterm 1"       -> "Midterm 1"
      [] chunk = "välikoe 1"       -> "Välikoe 1"
      [] chunk = "osakoe 1"        -> "Osakoe 1"
      [] chunk = "osakoe 1a"       -> "Osakoe 1a"
      [] chunk = "x"               -> "X"
      [] OTHER -> chunk

RECURSIVE Concat(_)
Concat(chunks) ==
    IF chunks = <<>> THEN "" ELSE Head(chunks) \o Concat(Tail(chunks))

\* description.replace("-", " ").capitalize()
DescLabel(description) ==
    Capitalized(Spaced(Head(description)))
        \o Concat([i \in 1..(Len(description) - 1) |-> Spaced(description[i + 1])])

\* the body of the loop of lines 23-51 for one path: the record it appends,
\* or the message of the exception it raises
ParseFile(stem, crs, langs) ==
    IF Len(stem) - 1 # 2
    THEN [raised |-> "Invalid file name"]
    ELSE LET course == stem[1]
             date_str == stem[2]
             description == stem[3]
             language == LanguageOf(description)
         IN IF language = ""
            THEN [raised |-> "Invalid description"]
            ELSE IF FormatDate(date_str) = <<>>
            THEN [raised |-> "Invalid date"]
            ELSE IF course \notin DOMAIN crs
            THEN [raised |-> "Invalid course name"]
            ELSE IF language \notin DOMAIN langs
            THEN [raised |-> "KeyError"]
            ELSE [raised |-> "",
                  exam |-> [course    |-> crs[course],
                            exam_date |-> FormatDate(date_str)[1],
                            desc      |-> DescLabel(description),
                            lang      |-> langs[language],
                            path      |-> stem]]

RECURSIVE ScanSkipping(_, _, _, _)
\* a plausible bug: a file that does not parse is skipped
ScanSkipping(paths, crs, langs, found) ==
    IF paths = <<>> THEN [files |-> found, raised |-> ""]
    ELSE LET r == ParseFile(Head(paths), crs, langs)
         IN ScanSkipping(Tail(paths), crs, langs,
                         IF r.raised # "" THEN found ELSE Append(found, r.exam))

RECURSIVE Scan(_, _, _, _)
\* the loop of lines 23-51 over the paths left
Scan(paths, crs, langs, found) ==
    IF paths = <<>> THEN [files |-> found, raised |-> ""]
    ELSE LET r == ParseFile(Head(paths), crs, langs)
         IN IF r.raised # "" THEN [files |-> found, raised |-> r.raised]
            ELSE Scan(Tail(paths), crs, langs, Append(found, r.exam))

\* a plausible bug: the options are fetched on every call
NeedsFetchAlways(crs) == TRUE

\* line 19: not len(self.courses)
NeedsFetch(crs) == Cardinality(DOMAIN crs) = 0

-----------------------------------------------------------------------------
(* The archive's answers, and login, getCSRFToken, addExams, __addExam. *)

\* r.status_code == 200
HTTP_OK == 200

\* the status codes the archive answers a POST with
Statuses == {HTTP_OK, 403}

\* re.findall('name="csrfmiddlewaretoken" value="([a-zA-Z0-9]*)"', r.text):
\* no such field in the body, a field with an empty value, a field with a token
TokenFields == { <<>>, <<"">>, <<"t1">>, <<"t2">>, <<"t3">> }

\* the GET of getCSRFToken, as the log keeps it
TokenRequest(url, caller, matches) ==
    [req |-> "GET " \o url, by |-> caller, sent |-> None, status |-> HTTP_OK,
     matches |-> matches, path |-> <<>>]

\* a POST, as the log keeps it
PostRequest(url, caller, sent, status, matches, path) ==
    [req |-> "POST " \o url, by |-> caller, sent |-> sent, status |-> status,
     matches |-> matches, path |-> path]

\* a plausible bug: the session cookie is not looked at
LoggedInByStatus(status, jar) == status = HTTP_OK

\* line 106: r.status_code == 200 and "sessionid" in self.client.cookies
LoggedIn(status, jar) == status = HTTP_OK /\ jar

\* a plausible bug: only None counts as no token
NoTokenHeldIsNone(tok) == tok = None

\* line 125: not token, which None and the empty string both satisfy
NoTokenHeld(tok) == tok = None \/ tok = ""

\* a plausible bug: the token of the request is kept for the next one
NextTokenStale(sent, matches) == sent

\* lines 150-153: the token __addExam returns is the one of the response
NextToken(sent, matches) == matches[1]

\* line 153: r.status_code == 200
Added(status) == status = HTTP_OK

RECURSIVE Without(_, _)
\* the listing of the directory once the file has been renamed away
Without(listing, stem) ==
    IF listing = <<>> THEN <<>>
    ELSE (IF Head(listing) = stem THEN <<>> ELSE <<Head(listing)>>)
         \o Without(Tail(listing), stem)

-----------------------------------------------------------------------------
(* The forms and the staged files of the runs. *)

CourseCS == Opt("course", <<"7">>, <<"CS-101", "Intro">>)
CourseMS == Opt("course", <<"1", "2">>, <<"MS-A0102", "Calc">>)
Swedish == Opt("lang", <<"1">>, <<"Swedish">>)
English == Opt("lang", <<"2">>, <<"English">>)
Finnish == Opt("lang", <<"3">>, <<"Finnish">>)

\* a form with two courses and the three languages
FullPage == <<CourseCS, CourseMS, Swedish, English, Finnish>>
\* a form whose course <select> is empty
NoCoursePage == <<Swedish, English, Finnish>>
\* a form whose Finnish option has a two-digit id, which the second pattern skips
NoFinnishPage ==
    <<CourseCS, Swedish, English, Opt("lang", <<"1", "0">>, <<"Finnish">>)>>
\* a form that lists English twice
TwoEnglishPage ==
    <<CourseCS, Swedish, English, Opt("lang", <<"4">>, <<"ENGLISH">>)>>

DescriptionUniverse ==
    { <<"tentamen">>, <<"sluttentamen">>, <<"mellanförhör-1">>,
      <<"deltentamen-2">>, <<"exam">>, <<"final-exam">>, <<"medterm-1">>,
      <<"tentti">>, <<"välikoe">>, <<"kesätentti">>, <<"välikoe-1">>,
      <<"osakoe-1">>, <<"osakoe-1a">>,
      <<"midterm-1">>, <<"Exam">>, <<"x", "exam">>,
      <<"x", "medterm-1">>, <<"medterm-1", "deltentamen-2">>,
      <<"osakoe-1", "medterm-1">> }

\* the stems of the file-discovery runs: a well-formed stem with one field
\* varied at a time, and stems with zero, one and three underscores
StemUniverse ==
    { <<"cs-101", "20240315", d>> : d \in DescriptionUniverse }
    \cup { <<"cs-101", t, <<"exam">> >> : t \in {"2024315", "20241301", "2024-3-15"} }
    \cup { <<c, "20240315", <<"tentti">> >> : c \in {"ms-a0102", "CS-101", "zz-999"} }
    \cup { <<"zz-999", "20241301", <<"midterm-1">> >>,
           <<"cs-101">>,
           <<"cs-101", "20240315">>,
           <<"cs-101", "2024", "0315", <<"exam">> >> }

\* the stems of the whole runs
MainStems ==
    { <<"cs-101", "20240315", <<"exam">> >>,
      <<"ms-a0102", "20240315", <<"tentamen">> >>,
      <<"cs-101", "2024315", <<"osakoe-1a">> >>,
      <<"zz-999", "20240315", <<"exam">> >>,
      <<"cs-101", "20240315">> }

\* the directory listings: sequences of distinct stems
Listings(S, n) ==
    { l \in SeqsUpTo(S, n) :
        \A i, j \in 1..Len(l) : i # j => l[i] # l[j] }

-----------------------------------------------------------------------------
(* The script, line 168: ta.fetchOptions({...}). *)

FetchOptions ==
    /\ pc = "fetch"
    /\ LET r == fetchOptions(page, overrides)
       IN /\ courses' = r.courses
          /\ languages' = r.languages
          /\ pc' = IF r.raised THEN "error" ELSE "find"
          /\ err' = IF r.raised THEN "Duplicate language found" ELSE err
    /\ http' = Append(http, FetchRequest)
    /\ UNCHANGED <<page, overrides, execute, todo, done, files, exams, next,
                   token, cookies>>

\* The script, line 181: exams = ta.findFiles().
FindFiles ==
    /\ pc = "find"
    /\ LET lazy == NeedsFetch(courses)
           r == IF lazy
                THEN fetchOptions(page, EmptyTable)
                ELSE [courses |-> courses, languages |-> languages,
                      raised |-> FALSE]
           s == Scan(todo, r.courses, r.languages, <<>>)
       IN /\ courses' = r.courses
          /\ languages' = r.languages
          /\ http' = IF lazy THEN Append(http, FetchRequest) ELSE http
          /\ files' = IF r.raised THEN files ELSE s.files
          /\ exams' = IF r.raised \/ s.raised # "" THEN exams ELSE s.files
          /\ err' = IF r.raised THEN "Duplicate language found" ELSE s.raised
          /\ pc' = IF r.raised \/ s.raised # "" THEN "error" ELSE "found"
    /\ UNCHANGED <<page, overrides, execute, todo, done, next, token, cookies>>

\* The script, lines 185-186: ta.login(USERNAME, PASSWORD).
Login ==
    /\ pc = "found"
    /\ execute
    /\ \E get \in TokenFields, status \in Statuses, jar \in BOOLEAN :
          IF get = <<>>
          THEN /\ http' = Append(http, TokenRequest("login/", "login", get))
               /\ pc' = "error"
               /\ err' = "IndexError"
               /\ cookies' = cookies
          ELSE /\ http' = http \o
                     << TokenRequest("login/", "login", get),
                        PostRequest("login/", "login", get[1], status, <<>>, <<>>) >>
               /\ cookies' = jar
               /\ pc' = IF LoggedIn(status, jar) THEN "add" ELSE "error"
               /\ err' = IF LoggedIn(status, jar) THEN err ELSE "Failed to log in"
    /\ UNCHANGED <<courses, languages, page, overrides, execute, todo, done,
                   files, exams, next, token>>

\* The script, lines 190-193: the records are printed and nothing is uploaded.
DryRun ==
    /\ pc = "found"
    /\ ~execute
    /\ pc' = "done"
    /\ UNCHANGED <<err, courses, languages, page, overrides, execute, todo,
                   done, files, exams, next, token, cookies, http>>

\* addExams, lines 123-133: one turn of the loop, with __addExam.
AddExam ==
    /\ pc = "add"
    /\ next < Len(exams)
    /\ LET exam == exams[next + 1]
           seed == NoTokenHeld(token)
       IN \E get \in TokenFields, status \in Statuses, post \in TokenFields :
             IF seed /\ get = <<>>
             THEN /\ http' = Append(http, TokenRequest("exams/add/", "addExams", get))
                  /\ pc' = "error"
                  /\ err' = "IndexError"
                  /\ UNCHANGED <<token, next, todo, done>>
             ELSE LET sent == IF seed THEN get[1] ELSE token
                      asked == IF seed
                               THEN <<TokenRequest("exams/add/", "addExams", get)>>
                               ELSE <<>>
                  IN /\ http' = http \o asked \o
                            <<PostRequest("exams/add/", "addExams", sent, status,
                                          post, exam.path)>>
                     /\ IF post = <<>>
                        THEN /\ pc' = "error"
                             /\ err' = "IndexError"
                             /\ token' = sent
                             /\ UNCHANGED <<next, todo, done>>
                        ELSE /\ token' = NextToken(sent, post)
                             /\ IF Added(status)
                                THEN /\ todo' = Without(todo, exam.path)
                                     /\ done' = done \cup {exam.path}
                                     /\ next' = next + 1
                                     /\ UNCHANGED <<pc, err>>
                                ELSE /\ pc' = "error"
                                     /\ err' = "Failed to add exam {p}"
                                     /\ UNCHANGED <<next, todo, done>>
    /\ UNCHANGED <<courses, languages, page, overrides, execute, files, exams,
                   cookies>>

\* addExams returns, line 189: "Done adding exams".
AddExamsReturn ==
    /\ pc = "add"
    /\ next = Len(exams)
    /\ pc' = "done"
    /\ UNCHANGED <<err, courses, languages, page, overrides, execute, todo,
                   done, files, exams, next, token, cookies, http>>

\* after construction (__init__), with the inputs of a whole run of the script
Init ==
    /\ pc = "fetch"
    /\ err = ""
    /\ courses = EmptyTable
    /\ languages = EmptyTable
    /\ page \in {FullPage, NoCoursePage, NoFinnishPage, TwoEnglishPage}
    /\ overrides = MainOverrides
    /\ execute \in BOOLEAN
    /\ todo \in Listings(MainStems, MaxFiles)
    /\ done = {}
    /\ files = <<>>
    /\ exams = <<>>
    /\ next = 0
    /\ token = None
    /\ cookies = FALSE
    /\ http = <<>>

Next ==
    \/ FetchOptions
    \/ FindFiles
    \/ Login
    \/ DryRun
    \/ AddExam
    \/ AddExamsReturn

Spec == Init /\ [][Next]_vars

\* after construction (__init__), with the inputs of an option-resolution run
InitOptions ==
    /\ pc = "fetch"
    /\ err = ""
    /\ courses = EmptyTable
    /\ languages = EmptyTable
    /\ page \in SeqsUpTo(OptionUniverse, MaxOptions)
    /\ overrides \in OverrideUniverse
    /\ execute = FALSE
    /\ todo = <<>>
    /\ done = {}
    /\ files = <<>>
    /\ exams = <<>>
    /\ next = 0
    /\ token = None
    /\ cookies = FALSE
    /\ http = <<>>

NextOptions == FetchOptions

SpecOptions == InitOptions /\ [][NextOptions]_vars

-----------------------------------------------------------------------------
(* The whole run: the claims. *)

\* a submission: the POST of __addExam
IsSubmission(r) == r.req = "POST exams/add/"

\* a token-seeding GET: the getCSRFToken call of addExams
IsSeed(r) == r.req = "GET exams/add/" /\ r.by = "addExams"

InTodo(stem) == \E k \in 1..Len(todo) : todo[k] = stem

\* the submissions made before the j-th request
HasEarlier(j) == \E i \in 1..(j - 1) : IsSubmission(http[i])

\* the last of them
Earlier(j) ==
    CHOOSE i \in 1..(j - 1) :
        /\ IsSubmission(http[i])
        /\ \A m \in (i + 1)..(j - 1) : ~IsSubmission(http[m])

\* C1: a submission answered 200 leaves its file out of todo and in done;
\* one answered anything else leaves the file in todo, ends the run in an
\* error and is the last request of the run.
C1_SubmissionMovesFile ==
    \A i \in 1..Len(http) :
        IsSubmission(http[i]) =>
            IF http[i].status = HTTP_OK
            THEN /\ ~InTodo(http[i].path)
                 /\ http[i].path \in done
            ELSE /\ InTodo(http[i].path)
                 /\ http[i].path \notin done
                 /\ pc = "error"
                 /\ i = Len(http)

\* C1, the part the code keeps: the same, for the submissions whose answer
\* has a token field.
C1_MovesWhenTokenFound ==
    \A i \in 1..Len(http) :
        IsSubmission(http[i]) =>
            IF http[i].status = HTTP_OK /\ http[i].matches # <<>>
            THEN /\ ~InTodo(http[i].path)
                 /\ http[i].path \in done
            ELSE /\ InTodo(http[i].path)
                 /\ http[i].path \notin done
                 /\ pc = "error"
                 /\ i = Len(http)

\* C2 as stated: every submission after the first sends the token taken
\* from the answer to the submission before it, and a token no earlier
\* submission has sent.
C2_TokenOfPrecedingResponse ==
    \A j \in 1..Len(http) :
        (IsSubmission(http[j]) /\ HasEarlier(j)) =>
            /\ http[Earlier(j)].matches # <<>>
            /\ http[j].sent = http[Earlier(j)].matches[1]
            /\ \A i \in 1..(j - 1) :
                  IsSubmission(http[i]) => http[i].sent # http[j].sent

\* the archive has not issued the same token twice on the submission endpoint
TokensAllFresh ==
    \A a, b \in 1..Len(http) :
        ( /\ a < b
          /\ IsSubmission(http[a]) \/ IsSeed(http[a])
          /\ IsSubmission(http[b]) \/ IsSeed(http[b])
          /\ http[a].matches # <<>>
          /\ http[b].matches # <<>> ) => http[a].matches[1] # http[b].matches[1]

\* C2 as the code has it: every submission after the first sends the token
\* taken from the answer to the submission before it when that token is not
\* empty, with no request in between, and otherwise the token of the one
\* seeding GET made in between; it sends a token no earlier submission has
\* sent as long as the archive has issued no token twice.
C2_TokenChain ==
    /\ \A j \in 1..Len(http) :
          (IsSubmission(http[j]) /\ HasEarlier(j)) =>
              LET i == Earlier(j)
              IN /\ http[i].matches # <<>>
                 /\ IF http[i].matches[1] # ""
                    THEN /\ j = i + 1
                         /\ http[j].sent = http[i].matches[1]
                    ELSE /\ j = i + 2
                         /\ IsSeed(http[i + 1])
                         /\ http[i + 1].matches # <<>>
                         /\ http[j].sent = http[i + 1].matches[1]
    /\ TokensAllFresh =>
          \A i, j \in 1..Len(http) :
              (i < j /\ IsSubmission(http[i]) /\ IsSubmission(http[j]))
                  => http[i].sent # http[j].sent

C2_Witness ==
    /\ pc = "done"
    /\ Len(exams) = 3
    /\ TokensAllFresh
    /\ \E j \in 1..Len(http) :
          /\ IsSubmission(http[j])
          /\ HasEarlier(j)
          /\ http[j].sent = "t3"
          /\ http[Earlier(j)].sent = "t2"

\* the requests of login
LoginLog == SelectSeq(http, LAMBDA r : r.by = "login")

\* login raised: the run ended in an error and login made its last request
LoginRaised == pc = "error" /\ http[Len(http)].by = "login"

\* C6 as stated: login makes one GET and then one POST with the token of
\* the GET; it returns if and only if the POST is answered 200 and the jar
\* holds the session cookie, and raises "Failed to log in" otherwise.
C6_OneGetOnePost ==
    Len(LoginLog) > 0 =>
        /\ Len(LoginLog) = 2
        /\ LoginLog[1].req = "GET login/"
        /\ LoginLog[2].req = "POST login/"
        /\ LoginLog[1].matches = <<LoginLog[2].sent>>
        /\ ~LoginRaised <=> (LoginLog[2].status = HTTP_OK /\ cookies)
        /\ LoginRaised => err = "Failed to log in"

\* C6 as the code has it: login makes one GET and, when the page has a token
\* field, one POST with that token, and no other request; it returns if and
\* only if the POST was made, was answered 200 and the jar holds the session
\* cookie; it raises "Failed to log in" when the POST was made and either is
\* missing, and the IndexError of getCSRFToken, without a POST, when the
\* page has no token field.
C6_OneAttempt ==
    Len(LoginLog) > 0 =>
        /\ LoginLog[1].req = "GET login/"
        /\ IF LoginLog[1].matches = <<>>
           THEN /\ Len(LoginLog) = 1
                /\ LoginRaised
                /\ err = "IndexError"
           ELSE /\ Len(LoginLog) = 2
                /\ LoginLog[2].req = "POST login/"
                /\ LoginLog[1].matches = <<LoginLog[2].sent>>
                /\ ~LoginRaised <=> (LoginLog[2].status = HTTP_OK /\ cookies)
                /\ LoginRaised => err = "Failed to log in"

C6_Witness ==
    /\ pc = "error"
    /\ err = "Failed to log in"
    /\ Len(LoginLog) = 2
    /\ LoginLog[2].status = HTTP_OK
    /\ ~cookies

\* the j-th request is a submission with a seeding GET right before it
Seeded(j) == j > 1 /\ IsSeed(http[j - 1])

\* no token is held before the j-th request: no submission has been made,
\* or the answer to the last one had an empty token
NoneHeldBefore(j) ==
    HasEarlier(j) => http[Earlier(j)].matches = <<"">>

\* addExams seeds a token exactly when it holds none, and every seeding GET
\* is followed by the submission it was made for unless it finds no token
SeedsExactlyWhenNoneHeld ==
    /\ \A j \in 1..Len(http) :
          IsSubmission(http[j]) => (Seeded(j) <=> NoneHeldBefore(j))
    /\ \A g \in 1..Len(http) :
          IsSeed(http[g]) =>
              /\ NoneHeldBefore(g)
              /\ IF http[g].matches = <<>>
                 THEN g = Len(http) /\ pc = "error" /\ err = "IndexError"
                 ELSE g < Len(http) /\ IsSubmission(http[g + 1])
    /\ exams = <<>> => \A g \in 1..Len(http) : ~IsSeed(http[g])

\* C8 as stated: the seeding GET is made exactly when no token is held, and
\* so every submission sends a token that is not empty.
C8_EverySubmissionHasToken ==
    /\ SeedsExactlyWhenNoneHeld
    /\ \A j \in 1..Len(http) :
          IsSubmission(http[j]) => http[j].sent \notin {None, ""}

\* C8 as the code has it: the seeding GET is made exactly when no token is
\* held, and a submission sends an empty token only when the seeding GET
\* right before it found a token field with an empty value.
C8_SeedWhenNoToken ==
    /\ SeedsExactlyWhenNoneHeld
    /\ \A j \in 1..Len(http) :
          IsSubmission(http[j]) =>
              /\ http[j].sent # None
              /\ http[j].sent = "" =>
                    (Seeded(j) /\ http[j - 1].matches = <<"">>)

C8_Witness ==
    /\ pc = "done"
    /\ Len(exams) = 3
    /\ \E j \in 1..Len(http) :
          /\ IsSubmission(http[j])
          /\ HasEarlier(j)
          /\ Seeded(j)
    /\ \E j \in 1..Len(http) :
          /\ IsSubmission(http[j])
          /\ HasEarlier(j)
          /\ ~Seeded(j)

\* findFiles looked a course up: it appended a record, or raised at or
\* after the lookup
LookedUpCourse == Len(files') > 0 \/ err' \in {"Invalid course name", "KeyError"}

\* findFiles fetches the form once when the course table is empty at the
\* call, and otherwise makes no request and leaves both tables as they are
FetchesWhenEmpty ==
    /\ (http' # http) <=> (DOMAIN courses = {})
    /\ http' # http => http' = Append(http, FetchRequest)
    /\ http' = http => (courses' = courses /\ languages' = languages)

\* C9 as stated: findFiles fetches if and only if the course table is empty,
\* leaves populated tables alone, and so looks courses up in a table that
\* is not empty.
C9_LookupInPopulatedTable ==
    [][(pc = "find" /\ pc' # "find") =>
          /\ FetchesWhenEmpty
          /\ LookedUpCourse => DOMAIN courses' # {}]_vars

\* C9 as the code has it: findFiles fetches if and only if the course table
\* is empty, leaves populated tables alone, and looks courses up in a table
\* fetchOptions has built, which is empty when the form lists no course.
C9_LazyFetch ==
    [][(pc = "find" /\ pc' # "find") =>
          /\ FetchesWhenEmpty
          /\ LookedUpCourse =>
                /\ \E i \in 1..Len(http') : http'[i] = FetchRequest
                /\ \/ DOMAIN courses' # {}
                   \/ CourseMatches(page) = <<>>]_vars

C9_Witness ==
    /\ pc = "found"
    /\ Len(exams) = 2
    /\ http = <<FetchRequest>>
    /\ "ms-a0102" \in DOMAIN courses
    /\ courses["ms-a0102"] = MainOverrides["ms-a0102"]
    /\ exams[1].course = MainOverrides["ms-a0102"]

\* the file does not parse or resolve against the tables findFiles used
FailsParsing(stem) == ParseFile(stem, courses, languages).raised # ""

\* C10: once findFiles is over, if any staged file fails, the run is in an
\* error, findFiles has returned no record, and nothing was requested beyond
\* the form: no login, no submission, no file moved.
C10_AllOrNothing ==
    (pc \notin {"fetch", "find"} /\ \E k \in 1..Len(todo) : FailsParsing(todo[k])) =>
        /\ pc = "error"
        /\ exams = <<>>
        /\ done = {}
        /\ \A i \in 1..Len(http) : http[i] = FetchRequest
        /\ ~ENABLED Next

C10_Witness ==
    /\ pc = "error"
    /\ err = "Invalid course name"
    /\ execute
    /\ Len(files) = 2
    /\ Len(todo) = 3

-----------------------------------------------------------------------------
(* Option resolution: the claims. *)

\* the options of the form's language <select>
IsLanguageOption(o) == o.sel = "lang"

\* the index of the first match of ms whose lowercased text is c
FirstOccurrence(ms, c) ==
    CHOOSE i \in 1..Len(ms) :
        /\ ms[i][3] = c
        /\ \A j \in 1..(i - 1) : ms[j][3] # c

\* whether the i-th option is a course option whose lowercased code an
\* earlier course option of the page has too
LaterDuplicate(pg, i) ==
    /\ CourseMatch(pg[i])
    /\ \E j \in 1..(i - 1) :
          /\ CourseMatch(pg[j])
          /\ LowerLabel(Front(pg[j].label)) = LowerLabel(Front(pg[i].label))

RECURSIVE KeepFirsts(_, _)
\* the first n options of the page without the later duplicates among them
KeepFirsts(pg, n) ==
    IF n = 0 THEN <<>>
    ELSE KeepFirsts(pg, n - 1) \o
         (IF LaterDuplicate(pg, n) THEN <<>> ELSE <<pg[n]>>)

\* C3: once fetchOptions has run, every lowercased scraped course code is
\* mapped to its override if it has one and to the id of its first scraped
\* occurrence otherwise, and a duplicate course code raises nothing: a page
\* that resolves without its later duplicates resolves with them.
C3_CourseTableNoRaise ==
    pc # "fetch" =>
        LET ms == CourseMatches(page)
        IN /\ \A i \in 1..Len(ms) :
                 LET c == ms[i][3]
                 IN /\ c \in DOMAIN courses
                    /\ courses[c] = IF c \in DOMAIN overrides
                                    THEN overrides[c]
                                    ELSE ms[FirstOccurrence(ms, c)][1]
           /\ (~fetchOptions(KeepFirsts(page, Len(page)), overrides).raised
                  => pc # "error")

\* C3, the part the code keeps: the course table itself.
C3_CourseTable ==
    pc # "fetch" =>
        LET ms == CourseMatches(page)
        IN /\ DOMAIN courses = {ms[i][3] : i \in 1..Len(ms)}
           /\ \A i \in 1..Len(ms) :
                 LET c == ms[i][3]
                 IN courses[c] = IF c \in DOMAIN overrides
                                 THEN overrides[c]
                                 ELSE ms[FirstOccurrence(ms, c)][1]

\* two scraped language options, equal ignoring case, with different ids
TwoLanguages(pg) ==
    LET ms == LanguageMatches(pg)
    IN \E i, j \in 1..Len(ms) :
          /\ i < j
          /\ IsLanguageOption(SelectSeq(pg, LanguageMatch)[i])
          /\ IsLanguageOption(SelectSeq(pg, LanguageMatch)[j])
          /\ ms[i][3] = ms[j][3]
          /\ ms[i][1] # ms[j][1]

\* C4: when two language options with names equal ignoring case and
\* different ids are scraped, fetchOptions ends in the duplicate-language
\* error and the run does not go on with either id.
C4_DuplicateLanguageRaises ==
    (pc # "fetch" /\ TwoLanguages(page)) =>
        /\ pc = "error"
        /\ err = "Duplicate language found"

C4_Witness ==
    /\ pc = "error"
    /\ TwoLanguages(page)
    /\ "english" \in DOMAIN languages

LookedUp == {"swedish", "english", "finnish"}

\* C7: the options the second pattern harvests outside the language
\* <select> change nothing: if the language options alone resolve, the page
\* resolves, to the same ids for swedish, english and finnish.
C7_ExtrasTolerated ==
    pc # "fetch" =>
        LET alone == fetchOptions(SelectSeq(page, IsLanguageOption), overrides)
        IN ~alone.raised =>
              /\ pc # "error"
              /\ \A n \in LookedUp :
                    /\ (n \in DOMAIN languages) = (n \in DOMAIN alone.languages)
                    /\ n \in DOMAIN languages => languages[n] = alone.languages[n]

-----------------------------------------------------------------------------
(* File discovery on its own: fetchOptions, then findFiles. *)

InitFiles ==
    /\ pc = "fetch"
    /\ err = ""
    /\ courses = EmptyTable
    /\ languages = EmptyTable
    /\ page \in {FullPage, NoCoursePage, NoFinnishPage}
    /\ overrides = MainOverrides
    /\ execute = FALSE
    /\ todo \in Listings(StemUniverse, MaxStaged)
    /\ done = {}
    /\ files = <<>>
    /\ exams = <<>>
    /\ next = 0
    /\ token = None
    /\ cookies = FALSE
    /\ http = <<>>

NextFiles == FetchOptions \/ FindFiles

SpecFiles == InitFiles /\ [][NextFiles]_vars

\* the classification table of the descriptions of the model: the Swedish
\* words and patterns first, then the English, then the Finnish ones
TableLanguage ==
    [d \in { <<"tentamen">>, <<"sluttentamen">>, <<"mellanförhör-1">>,
             <<"deltentamen-2">>, <<"medterm-1", "deltentamen-2">> }
        |-> "swedish"] @@
    [d \in { <<"exam">>, <<"final-exam">>, <<"medterm-1">>, <<"x", "medterm-1">>,
             <<"osakoe-1", "medterm-1">> }
        |-> "english"] @@
    [d \in { <<"tentti">>, <<"välikoe">>, <<"kesätentti">>, <<"välikoe-1">>,
             <<"osakoe-1">>, <<"osakoe-1a">> }
        |-> "finnish"]

\* the dates of the model that strptime accepts
ValidDates == {"20240315", "2024315"}

\* findFiles has looked at the k-th file: it appended its record, or raised on it
Examined(k) ==
    /\ pc \in {"found", "error"}
    /\ err # "Duplicate language found"
    /\ \/ k <= Len(files)
       \/ k = Len(files) + 1 /\ pc = "error"

\* C5 as stated: every file with exactly two underscores and a recognized
\* description parses, to the language of the classification table; every
\* file with another number of underscores fails as a malformed file name.
C5_ParsesEveryRecognized ==
    \A k \in 1..Len(todo) :
        Examined(k) =>
            /\ (Len(todo[k]) = 3 /\ todo[k][3] \in DOMAIN TableLanguage) =>
                  /\ k <= Len(files)
                  /\ TableLanguage[todo[k][3]] \in DOMAIN languages
                  /\ files[k].lang = languages[TableLanguage[todo[k][3]]]
            /\ Len(todo[k]) # 3 =>
                  /\ k = Len(files) + 1
                  /\ err = "Invalid file name"

\* C5 as the code has it: the file parses when, besides, its date is one
\* strptime accepts, its course is in the course table and its language is
\* in the language table.
C5_ParsesRecognized ==
    \A k \in 1..Len(todo) :
        Examined(k) =>
            /\ ( /\ Len(todo[k]) = 3
                 /\ todo[k][3] \in DOMAIN TableLanguage
                 /\ todo[k][2] \in ValidDates
                 /\ todo[k][1] \in DOMAIN courses
                 /\ TableLanguage[todo[k][3]] \in DOMAIN languages ) =>
                  /\ k <= Len(files)
                  /\ files[k].path = todo[k]
                  /\ files[k].lang = languages[TableLanguage[todo[k][3]]]
            /\ Len(todo[k]) # 3 =>
                  /\ k = Len(files) + 1
                  /\ err = "Invalid file name"

C5_Witness ==
    /\ pc = "error"
    /\ err = "Invalid file name"
    /\ Len(files) = 1
    /\ files[1].path[3] = <<"medterm-1", "deltentamen-2">>
    /\ files[1].lang = <<"1">>

====
